---- MODULE Spec2Model ----
(***************************************************************************)
(* Model of src/main.py: GetUncompressedSize and UncompressLZ77, the       *)
(* header parser and the token-stream decode loop of the LZ77 (0x11)       *)
(* decompressor.  One decode call is a run of the state machine: the       *)
(* marker test, the header, then the while / for / copy loops, one loop    *)
(* iteration per step, ending in "returned" (a return statement) or in     *)
(* "raised" (a Python exception leaves UncompressLZ77; decompress_file     *)
(* catches it at lines 122-124 and reports the failure).                   *)
(*                                                                         *)
(* Byte strings: inData is a sequence of bytes; source index k is          *)
(* inData[k + 1].  A buffer (outData, the returned value) is a record      *)
(* [len, data]: len is its length and data maps the indices that hold a    *)
(* nonzero byte to that byte; every other index below len holds 0.  This   *)
(* is bytearray(outLength), zero-filled, without enumerating its zeros.    *)
(* The allocation is taken to succeed whatever the declared length         *)
(* (MemoryError is not modelled).                                          *)
(***************************************************************************)
EXTENDS Integers, Sequences, FiniteSets, TLC

VARIABLES inData, pc, exc, hdrRead, outLength, offset, outData, outIndex,
          flags, x, pos, copylen, y, result

vars == <<inData, pc, exc, hdrRead, outLength, offset, outData, outIndex,
          flags, x, pos, copylen, y, result>>

----------------------------------------------------------------------------
(* Python's integer operators on non-negative integers (unbounded width).  *)

RECURSIVE BitAnd(_, _)
BitAnd(a, b) ==
    IF a = 0 \/ b = 0 THEN 0
    ELSE (a % 2) * (b % 2) + 2 * BitAnd(a \div 2, b \div 2)

RECURSIVE BitOr(_, _)
BitOr(a, b) ==
    IF a = 0 THEN b
    ELSE IF b = 0 THEN a
    ELSE (IF a % 2 = 1 \/ b % 2 = 1 THEN 1 ELSE 0)
         + 2 * BitOr(a \div 2, b \div 2)

Shl(a, n) == a * (2 ^ n)

Shr(a, n) == a \div (2 ^ n)

----------------------------------------------------------------------------
(* Byte strings and buffers.                                               *)

Byte == 0..255

\* inData[k] of the source (k >= 0, k < len(inData)).
InAt(data, k) == data[k + 1]

\* bytearray(n): n zero bytes.
NewBuffer(n) == [len |-> n, data |-> [i \in {} |-> 0]]

\* The byte a buffer holds at index i, 0 <= i < buf.len.
ByteAt(buf, i) == IF i \in DOMAIN buf.data THEN buf.data[i] ELSE 0

\* The buffer with the byte at index i, 0 <= i < buf.len, replaced by v.
Store(buf, i, v) ==
    LET dom == IF v = 0 THEN DOMAIN buf.data \ {i} ELSE DOMAIN buf.data \cup {i}
    IN  [len  |-> buf.len,
         data |-> [j \in dom |-> IF j = i THEN v ELSE buf.data[j]]]

\* The buffer holding the bytes of a sequence: the value of a bytes object.
BufferOf(s) ==
    [len  |-> Len(s),
     data |-> [i \in {k \in 0..(Len(s) - 1) : s[k + 1] # 0} |-> s[i + 1]]]

\* The bytes of a buffer as a sequence.
BytesOf(buf) == [i \in 1..buf.len |-> ByteAt(buf, i - 1)]

\* Subscript rules of bytearray: which index an int subscript denotes, and
\* whether the subscript raises IndexError.  A negative subscript i >= -len
\* denotes len + i; a write never extends the buffer.
\* Variant: a subscript past the end is not refused.
SubscriptOKMutant(buf, i) == (-buf.len) <= i

SubscriptOK(buf, i) == (-buf.len) <= i /\ i < buf.len

Resolve(buf, i) == IF i < 0 THEN buf.len + i ELSE i

GetItem(buf, i) == ByteAt(buf, Resolve(buf, i))

SetItem(buf, i, v) == Store(buf, Resolve(buf, i), v)

----------------------------------------------------------------------------
Marker == 17

\* GetUncompressedSize, lines 11-20.  raised: a subscript of inData was out
\* of range (IndexError); read: the indices of inData it subscripted.
\* Variant: the extended size is read but offset stays 4 (no offset += 4).
GetUncompressedSizeMutant(data) ==
    LET n == Len(data) IN
    IF n < 4
    THEN [raised |-> TRUE, outSize |-> 0, offset |-> 4, read |-> 1..(n - 1)]
    ELSE
      LET outSize == BitOr(BitOr(InAt(data, 1), Shl(InAt(data, 2), 8)),
                           Shl(InAt(data, 3), 16))
      IN  IF outSize # 0
          THEN [raised |-> FALSE, outSize |-> outSize, offset |-> 4,
                read |-> 1..3]
          ELSE IF n < 8
          THEN [raised |-> TRUE, outSize |-> 0, offset |-> 4,
                read |-> 1..(n - 1)]
          ELSE [raised |-> FALSE,
                outSize |-> BitOr(BitOr(BitOr(InAt(data, 4),
                                              Shl(InAt(data, 5), 8)),
                                        Shl(InAt(data, 6), 16)),
                                  Shl(InAt(data, 7), 24)),
                offset |-> 4, read |-> 1..7]

GetUncompressedSize(data) ==
    LET n == Len(data) IN
    IF n < 4
    THEN [raised |-> TRUE, outSize |-> 0, offset |-> 4, read |-> 1..(n - 1)]
    ELSE
      LET outSize == BitOr(BitOr(InAt(data, 1), Shl(InAt(data, 2), 8)),
                           Shl(InAt(data, 3), 16))
      IN  IF outSize # 0
          THEN [raised |-> FALSE, outSize |-> outSize, offset |-> 4,
                read |-> 1..3]
          ELSE IF n < 8
          THEN [raised |-> TRUE, outSize |-> 0, offset |-> 4,
                read |-> 1..(n - 1)]
          ELSE [raised |-> FALSE,
                outSize |-> BitOr(BitOr(BitOr(InAt(data, 4),
                                              Shl(InAt(data, 5), 8)),
                                        Shl(InAt(data, 6), 16)),
                                  Shl(InAt(data, 7), 24)),
                offset |-> 8, read |-> 1..7]

----------------------------------------------------------------------------
(* The back-reference token formulas, lines 58-67.                         *)

\* lines 66-67: first >= 32
Pos2(first, second) == BitOr(Shl(BitAnd(first, 15), 8), second) + 1

Len2(first) == Shr(first, 4) + 1

\* lines 62-63: first < 16
Pos3(second, third) == BitOr(Shl(BitAnd(second, 15), 8), third) + 1

\* Variant: length base 16 instead of 17.
Len3Mutant(first, second) ==
    BitOr(Shl(BitAnd(first, 15), 4), Shr(second, 4)) + 16

Len3(first, second) == BitOr(Shl(BitAnd(first, 15), 4), Shr(second, 4)) + 17

\* lines 58-59: 16 <= first < 32
Pos4(third, fourth) == BitOr(Shl(BitAnd(third, 15), 8), fourth) + 1

Len4(first, second, third) ==
    BitOr(BitOr(Shl(second, 4), Shl(BitAnd(first, 15), 12)), Shr(third, 4)) + 273

\* Lines 44-67 at input offset off < len(data): the token's bytes are read
\* one at a time, offset advancing after each; a read at or past the end of
\* data raises IndexError with offset left where the read failed.
ReadToken(data, off) ==
    LET n      == Len(data)
        first  == InAt(data, off)
        Fail(o) == [raised |-> TRUE, offset |-> o, pos |-> 0, copylen |-> 0]
        Tok(o, p, c) == [raised |-> FALSE, offset |-> o, pos |-> p, copylen |-> c]
    IN  IF off + 1 >= n THEN Fail(off + 1)
        ELSE
          LET second == InAt(data, off + 1) IN
          IF first < 32
          THEN IF off + 2 >= n THEN Fail(off + 2)
               ELSE
                 LET third == InAt(data, off + 2) IN
                 IF first >= 16
                 THEN IF off + 3 >= n THEN Fail(off + 3)
                      ELSE Tok(off + 4, Pos4(third, InAt(data, off + 3)),
                               Len4(first, second, third))
                 ELSE Tok(off + 3, Pos3(second, third), Len3(first, second))
          ELSE Tok(off + 2, Pos2(first, second), Len2(first))

\* flags & (1 << x), line 43
\* Variant: the flag bits taken least significant first.
FlagSetMutant(f, b) == BitAnd(f, Shl(1, 7 - b)) # 0

FlagSet(f, b) == BitAnd(f, Shl(1, b)) # 0

\* reversed(range(8)), line 39: the first value and the one after b.
FirstSlot == 7

\* Variant: range(8) counted upwards.
NextSlotMutant(b) == b + 1

NextSlot(b) == b - 1

\* Line 70: source and destination subscripts of the y-th copied byte.
\* Variant: every byte of the copy read from the same source index.
CopySrcMutant(i, d, k) == i - d

CopySrc(i, d, k) == i - d + k

CopyDst(i, k) == i + k

----------------------------------------------------------------------------
(* The inputs of the decode call.  Any byte string is an input; these are   *)
(* the families the model runs on.                                          *)

MaxOut == 6

MaxBody == 4

BitsPerFlag == 8

SeqsUpTo(S, n) == UNION {[1..k -> S] : k \in 0..n}

\* Flag bytes, literals and first / second token bytes of short streams.
BodyBytes == {0, 1, 32, 64, 65}

\* A 4-byte header declaring N output bytes (N = 0: the 32-bit escape, the
\* body then holding header bytes 4..7), then a short token section.
TokenStreams ==
    {<<Marker, N, 0, 0>> \o b : N \in 0..MaxOut, b \in SeqsUpTo(BodyBytes, MaxBody)}

\* An 8-byte header declaring L output bytes, then a short token section.
ExtStreams ==
    {<<Marker, 0, 0, 0, L, 0, 0, 0>> \o b :
        L \in 0..MaxOut, b \in SeqsUpTo(BodyBytes, MaxBody - 1)}

\* One literal, then one back-reference token with every first byte.
TailBytes == {0, 31, 240}

FirstByteStreams ==
    {<<Marker, 3, 0, 0, 64, 65, first, second, third, fourth>> :
        first \in Byte, second \in TailBytes, third \in TailBytes,
        fourth \in {0, 255}}

\* Headers with every length byte in use, alone or followed by four bytes.
HdrBytes == {0, 1, 2}

HeaderStreams ==
    {<<Marker, a, b, c>> \o t :
        a \in HdrBytes, b \in HdrBytes, c \in HdrBytes,
        t \in {<<>>, <<0, 65>>} \cup [1..4 -> HdrBytes]}

\* [0x11, N, 0, 0, flagsByte, b0, ..., b(N-1)], the N most significant bits
\* of flagsByte zero.
LitBytes == {0, 65}

LitFlags == {0, 1, 3, 15, 127, 255}

LiteralStreams ==
    UNION {{<<Marker, N, 0, 0, f>> \o b : f \in LitFlags, b \in [1..N -> LitBytes]} :
              N \in 0..BitsPerFlag}

IsLiteralStream(s) ==
    /\ Len(s) >= 5
    /\ s[1] = Marker /\ s[3] = 0 /\ s[4] = 0
    /\ s[2] <= BitsPerFlag
    /\ Len(s) = 5 + s[2]
    /\ s[5] < 2 ^ (BitsPerFlag - s[2])

\* 11 08 00 00 08 41 41 41 41 30 00
ExampleStream == <<17, 8, 0, 0, 8, 65, 65, 65, 65, 48, 0>>

\* Four distinct literals, then a 2-byte token of length 3 or 4.
PatternStreams ==
    {<<17, 8, 0, 0, 8, 65, 66, 67, 68, t, d>> : t \in {32, 48}, d \in {0, 1, 3, 4}}

\* Output length 288; two literals, then a 3-byte token (length 17 + 2,
\* distance 2), and one literal, then a 4-byte token (length 273, distance 1).
LongStreams ==
    {<<17, 32, 1, 0, 32, 65, 66, 0, 32, 1>>,
     <<17, 32, 1, 0, 64, 65, 16, 0, 0, 0>>,
     <<17, 32, 1, 0, 64, 65, 16, 0, 16, 0>>}

\* No marker, or a header cut short.
OtherStreams ==
    {<<>>, <<Marker>>, <<Marker, 1>>, <<Marker, 1, 0>>}
    \cup {<<m>> \o t : m \in {0, 16, 18}, t \in SeqsUpTo({0, Marker}, 2)}

Inputs ==
    TokenStreams \cup ExtStreams \cup FirstByteStreams \cup HeaderStreams
    \cup {s \in LiteralStreams : IsLiteralStream(s)}
    \cup {ExampleStream} \cup PatternStreams \cup LongStreams \cup OtherStreams

----------------------------------------------------------------------------
Init ==
    /\ inData \in Inputs
    /\ pc = "start"
    /\ exc = "none"
    /\ hdrRead = {}
    /\ outLength = 0
    /\ offset = 0
    /\ outData = NewBuffer(0)
    /\ outIndex = 0
    /\ flags = 0
    /\ x = 0
    /\ pos = 0
    /\ copylen = 0
    /\ y = 0
    /\ result = NewBuffer(0)

\* An exception leaves UncompressLZ77: no value is returned.
Raise(site) ==
    /\ pc' = "raised"
    /\ exc' = site

\* Line 25 on an empty input: inData[0] raises IndexError.
MarkerRaise ==
    /\ pc = "start"
    /\ Len(inData) = 0
    /\ Raise("marker")
    /\ UNCHANGED <<inData, hdrRead, outLength, offset, outData, outIndex,
                   flags, x, pos, copylen, y, result>>

\* What line 27 returns.
\* Variant: the marker byte dropped from the returned input.
PassThroughValueMutant(data) == BufferOf(Tail(data))

PassThroughValue(data) == BufferOf(data)

\* Lines 25-27: the marker is not 0x11, the input is returned as it is.
PassThrough ==
    /\ pc = "start"
    /\ Len(inData) > 0
    /\ InAt(inData, 0) # Marker
    /\ pc' = "returned"
    /\ result' = PassThroughValue(inData)
    /\ UNCHANGED <<inData, exc, hdrRead, outLength, offset, outData, outIndex,
                   flags, x, pos, copylen, y>>

\* Lines 29-33: the header is parsed, the output buffer allocated.
ParseHeader ==
    /\ pc = "start"
    /\ Len(inData) > 0
    /\ InAt(inData, 0) = Marker
    /\ LET h == GetUncompressedSize(inData) IN
         /\ hdrRead' = h.read
         /\ \/ /\ h.raised
               /\ Raise("header")
               /\ UNCHANGED <<outLength, offset, outData, outIndex>>
            \/ /\ ~h.raised
               /\ outLength' = h.outSize
               /\ offset' = h.offset
               /\ outData' = NewBuffer(h.outSize)
               /\ outIndex' = 0
               /\ pc' = "while"
               /\ UNCHANGED exc
    /\ UNCHANGED <<inData, flags, x, pos, copylen, y, result>>

\* The guard of line 35, and its negation at line 40.
Running == outIndex < outLength /\ offset < Len(inData)

\* Lines 35-37: the while guard holds, a flag byte is read.
ReadFlags ==
    /\ pc = "while"
    /\ Running
    /\ flags' = InAt(inData, offset)
    /\ offset' = offset + 1
    /\ x' = FirstSlot
    /\ pc' = "for"
    /\ UNCHANGED <<inData, exc, hdrRead, outLength, outData, outIndex,
                   pos, copylen, y, result>>

\* Lines 35 and 79: the while guard fails, bytes(outData) is returned.
Return ==
    /\ pc = "while"
    /\ ~Running
    /\ pc' = "returned"
    /\ result' = outData
    /\ UNCHANGED <<inData, exc, hdrRead, outLength, offset, outData, outIndex,
                   flags, x, pos, copylen, y>>

\* Lines 39-41: the for loop is over, by exhaustion of range(8) or by break.
EndFlags ==
    /\ pc = "for"
    /\ x < 0 \/ ~Running
    /\ pc' = "while"
    /\ UNCHANGED <<inData, exc, hdrRead, outLength, offset, outData, outIndex,
                   flags, x, pos, copylen, y, result>>

\* Lines 74-77: a literal byte.
Literal ==
    /\ pc = "for"
    /\ x >= 0 /\ Running
    /\ ~FlagSet(flags, x)
    /\ outData' = SetItem(outData, outIndex, InAt(inData, offset))
    /\ offset' = offset + 1
    /\ outIndex' = outIndex + 1
    /\ x' = NextSlot(x)
    /\ UNCHANGED <<inData, pc, exc, hdrRead, outLength, flags, pos, copylen,
                   y, result>>

\* Lines 44-67: a back-reference token is read.
DecodeToken ==
    /\ pc = "for"
    /\ x >= 0 /\ Running
    /\ FlagSet(flags, x)
    /\ LET t == ReadToken(inData, offset) IN
         /\ offset' = t.offset
         /\ \/ /\ t.raised
               /\ Raise("token")
               /\ UNCHANGED <<pos, copylen, y>>
            \/ /\ ~t.raised
               /\ pos' = t.pos
               /\ copylen' = t.copylen
               /\ y' = 0
               /\ pc' = "copy"
               /\ UNCHANGED exc
    /\ UNCHANGED <<inData, hdrRead, outLength, outData, outIndex, flags, x,
                   result>>

\* Lines 69-70: one byte of the copy; the right-hand side is evaluated
\* first, then the store.
CopyByte ==
    /\ pc = "copy"
    /\ y < copylen
    /\ LET src == CopySrc(outIndex, pos, y)
           dst == CopyDst(outIndex, y)
       IN  \/ /\ ~SubscriptOK(outData, src)
              /\ Raise("copy_read")
              /\ UNCHANGED <<outData, y>>
           \/ /\ SubscriptOK(outData, src)
              /\ ~SubscriptOK(outData, dst)
              /\ Raise("copy_write")
              /\ UNCHANGED <<outData, y>>
           \/ /\ SubscriptOK(outData, src)
              /\ SubscriptOK(outData, dst)
              /\ outData' = SetItem(outData, dst, GetItem(outData, src))
              /\ y' = y + 1
              /\ UNCHANGED <<pc, exc>>
    /\ UNCHANGED <<inData, hdrRead, outLength, offset, outIndex, flags, x,
                   pos, copylen, result>>

\* Variant: outIndex = copylen instead of outIndex += copylen.
CopyDoneMutant ==
    /\ pc = "copy"
    /\ y >= copylen
    /\ outIndex' = copylen
    /\ x' = NextSlot(x)
    /\ pc' = "for"
    /\ UNCHANGED <<inData, exc, hdrRead, outLength, offset, outData, flags,
                   pos, copylen, y, result>>

\* Lines 69 and 72: range(copylen) is exhausted, outIndex advances.
CopyDone ==
    /\ pc = "copy"
    /\ y >= copylen
    /\ outIndex' = outIndex + copylen
    /\ x' = NextSlot(x)
    /\ pc' = "for"
    /\ UNCHANGED <<inData, exc, hdrRead, outLength, offset, outData, flags,
                   pos, copylen, y, result>>

Next ==
    \/ MarkerRaise
    \/ PassThrough
    \/ ParseHeader
    \/ ReadFlags
    \/ Return
    \/ EndFlags
    \/ Literal
    \/ DecodeToken
    \/ CopyByte
    \/ CopyDone

Spec == Init /\ [][Next]_vars

----------------------------------------------------------------------------
(* Properties.  The expected values are written with plain arithmetic on   *)
(* the bytes of inData, not with the operators of the model.               *)

MarkerOK == Len(inData) > 0 /\ inData[1] = Marker

\* The little-endian header fields of a stream.
Len24(s) == s[2] + 256 * s[3] + 65536 * s[4]

Len32(s) == s[5] + 256 * s[6] + 65536 * s[7] + 16777216 * s[8]

HeaderRaises(s) == Len(s) < 4 \/ (Len24(s) = 0 /\ Len(s) < 8)

StartOffset(s) == IF Len24(s) = 0 THEN 8 ELSE 4

DeclaredLength(s) == IF Len24(s) = 0 THEN Len32(s) ELSE Len24(s)

\* The decode loop has been entered (or skipped by its guard).
InLoop == MarkerOK /\ pc # "start" /\ exc # "header"

\* The k-th byte of the token being read at offset.
TokByte(k) == InAt(inData, offset + k)

\* C1 as stated: a back-reference token is decoded by the table "first >= 32:
\* 2 bytes; 16 <= first < 32: 3 bytes, length base 17; first < 16: 4 bytes,
\* length base 273", with the distance and length formulas of each row.
C1_SpecTable ==
    [][(pc = "for" /\ pc' = "copy") =>
        /\ TokByte(0) >= 32 =>
              /\ offset' = offset + 2
              /\ pos' = (TokByte(0) % 16) * 256 + TokByte(1) + 1
              /\ copylen' = (TokByte(0) \div 16) + 1
        /\ (16 <= TokByte(0) /\ TokByte(0) < 32) =>
              /\ offset' = offset + 3
              /\ pos' = (TokByte(1) % 16) * 256 + TokByte(2) + 1
              /\ copylen' = (TokByte(0) % 16) * 16 + (TokByte(1) \div 16) + 17
        /\ TokByte(0) < 16 =>
              /\ offset' = offset + 4
              /\ pos' = (TokByte(2) % 16) * 256 + TokByte(3) + 1
              /\ copylen' = TokByte(1) * 16 + (TokByte(0) % 16) * 4096
                            + (TokByte(2) \div 16) + 273
    ]_vars

\* C1 amended: the two narrow rows are the other way round: first < 16 is the
\* 3-byte token (length base 17) and 16 <= first < 32 the 4-byte token (length
\* base 273); first >= 32 is the 2-byte token as stated.
C1_CodeTable ==
    [][(pc = "for" /\ pc' = "copy") =>
        /\ TokByte(0) >= 32 =>
              /\ offset' = offset + 2
              /\ pos' = (TokByte(0) % 16) * 256 + TokByte(1) + 1
              /\ copylen' = (TokByte(0) \div 16) + 1
        /\ TokByte(0) < 16 =>
              /\ offset' = offset + 3
              /\ pos' = (TokByte(1) % 16) * 256 + TokByte(2) + 1
              /\ copylen' = (TokByte(0) % 16) * 16 + (TokByte(1) \div 16) + 17
        /\ (16 <= TokByte(0) /\ TokByte(0) < 32) =>
              /\ offset' = offset + 4
              /\ pos' = (TokByte(2) % 16) * 256 + TokByte(3) + 1
              /\ copylen' = TokByte(1) * 16 + (TokByte(0) % 16) * 4096
                            + (TokByte(2) \div 16) + 273
    ]_vars

\* A 4-byte token with a nonzero second byte has been read.
C1_Witness ==
    /\ pc = "copy" /\ y = 0
    /\ InAt(inData, offset - 4) \in 16..31
    /\ InAt(inData, offset - 3) = 240
    /\ copylen > 273

----------------------------------------------------------------------------
\* C2: a back-reference of distance d = pos, 1 <= d <= outIndex, copies byte
\* by byte in increasing order: the bytes written so far repeat the d bytes
\* before outIndex with period d (also when d < copylen), the bytes below
\* outIndex stay as they were before the copy, a copy that fits in the buffer
\* does not fail, and at its end outIndex advances by exactly copylen.  The
\* stream 11 08 00 00 08 41 41 41 41 30 00 decodes to eight bytes 0x41.
C2_CopyState ==
    /\ (pc = "copy" /\ 1 <= pos /\ pos <= outIndex) =>
          \A k \in 0..(y - 1) :
              ByteAt(outData, outIndex + k)
                  = ByteAt(outData, outIndex - pos + (k % pos))
    /\ (inData = ExampleStream) =>
          /\ pc # "raised"
          /\ pc = "returned" => BytesOf(result) = <<65, 65, 65, 65, 65, 65, 65, 65>>

C2_CopyStep ==
    /\ (pc = "copy" /\ pc' = "copy") =>
          \A j \in 0..(outIndex - 1) : ByteAt(outData', j) = ByteAt(outData, j)
    /\ (pc = "copy" /\ 1 <= pos /\ pos <= outIndex
                    /\ outIndex + copylen <= outLength) => pc' # "raised"
    /\ (pc = "copy" /\ pc' = "for") =>
          /\ y = copylen
          /\ outIndex' = outIndex + copylen
          /\ outData' = outData

C2_Copy == [](C2_CopyState) /\ [][C2_CopyStep]_vars

\* An overlapping copy of a two-byte pattern has been completed.
C2_Witness ==
    /\ pc = "copy" /\ y = copylen
    /\ 2 <= pos /\ pos <= outIndex /\ pos < copylen
    /\ ByteAt(outData, outIndex - 1) # ByteAt(outData, outIndex - 2)
    /\ ByteAt(outData, outIndex + copylen - 1) # 0

----------------------------------------------------------------------------
\* C3: a stream with marker 0x11 whose token section ends early, at any byte
\* position, returns a result and never raises: no read of a token byte fails,
\* and every byte of the result at an index >= the final outIndex is zero.
C3_TruncationNeverRaises ==
    /\ exc # "token"
    /\ (MarkerOK /\ pc = "returned") =>
          \A i \in DOMAIN result.data : i < outIndex

----------------------------------------------------------------------------
\* C4: a back-reference with distance > outIndex never copies a byte read
\* from some other position of the buffer: the decode has failed instead.
C4_NoCopyBeforeStart ==
    ~(pc = "copy" /\ pos > outIndex /\ y > 0)

----------------------------------------------------------------------------
\* C5 as stated: for every N <= 8 the literal stream [0x11, N, 0, 0, flags,
\* b0..b(N-1)], the N most significant flag bits zero, decodes to [b0..b(N-1)].
C5_LiteralRoundTrip ==
    IsLiteralStream(inData) =>
        /\ pc # "raised"
        /\ pc = "returned" => BytesOf(result) = SubSeq(inData, 6, Len(inData))

\* C5 amended: the same for 1 <= N <= 8.
C5_LiteralRoundTripNonEmpty ==
    (IsLiteralStream(inData) /\ inData[2] >= 1) =>
        /\ pc # "raised"
        /\ pc = "returned" => BytesOf(result) = SubSeq(inData, 6, Len(inData))

\* Eight literals have been decoded and returned.
C5_Witness ==
    /\ IsLiteralStream(inData) /\ inData[2] = BitsPerFlag
    /\ pc = "returned"
    /\ inData[6] # 0 /\ inData[13] # 0 /\ inData[7] = 0

----------------------------------------------------------------------------
\* C6: the header gives (L, 4) from bytes 1..3 alone when their little-endian
\* value L is nonzero, and (L32, 8) from bytes 4..7 when bytes 1..3 are zero;
\* the start offset is the number of header bytes read.
C6_HeaderStep ==
    (pc = "start" /\ MarkerOK) =>
        /\ pc' = "raised" <=> HeaderRaises(inData)
        /\ pc' = "while" =>
             /\ Len24(inData) # 0 =>
                   /\ outLength' = Len24(inData)
                   /\ offset' = 4
                   /\ hdrRead' = {1, 2, 3}
             /\ Len24(inData) = 0 =>
                   /\ outLength' = Len32(inData)
                   /\ offset' = 8
                   /\ hdrRead' = 1..7
             /\ {0} \cup hdrRead' = 0..(offset' - 1)

C6_Header == [][C6_HeaderStep]_vars

\* An extended header with its top byte in use has been parsed.
C6_Witness ==
    /\ pc = "while" /\ offset = 8 /\ outIndex = 0
    /\ outLength >= 16777216 + 512
    /\ hdrRead = 1..7

----------------------------------------------------------------------------
\* C7: an input whose first byte is not 0x11 is returned unchanged, and
\* neither the header parser nor the decoder runs.
C7_PassThrough ==
    (Len(inData) > 0 /\ inData[1] # Marker) =>
        /\ pc \in {"start", "returned"}
        /\ pc = "returned" =>
              /\ result.len = Len(inData)
              /\ BytesOf(result) = inData
        /\ exc = "none" /\ hdrRead = {}
        /\ offset = 0 /\ outIndex = 0 /\ outData = NewBuffer(0)

C7_Witness ==
    /\ pc = "returned"
    /\ Len(inData) = 3 /\ inData[1] = 16 /\ inData[2] = Marker

----------------------------------------------------------------------------
\* C8: with marker 0x11 a returned result has exactly the declared length;
\* the buffer never holds a byte at an index >= outLength, and a copy whose
\* next byte falls at an index >= outLength fails without writing.
C8_LengthState ==
    /\ outData.len = outLength
    /\ \A i \in DOMAIN outData.data : 0 <= i /\ i < outLength
    /\ pc = "copy" => outIndex + y <= outLength
    /\ (MarkerOK /\ pc = "returned") =>
          /\ result.len = DeclaredLength(inData)
          /\ \A i \in DOMAIN result.data : 0 <= i /\ i < result.len

C8_OverrunStep ==
    (pc = "copy" /\ y < copylen /\ outIndex + y >= outLength) =>
        /\ pc' = "raised"
        /\ outData' = outData
        /\ result' = result

C8_Length == [](C8_LengthState) /\ [][C8_OverrunStep]_vars

\* A copy has written some bytes and then failed at the end of the buffer.
C8_Witness ==
    /\ pc = "raised" /\ exc = "copy_write"
    /\ y > 0 /\ outIndex + y = outLength

----------------------------------------------------------------------------
\* C9: the slots of a flag byte are taken from bit 7 down to bit 0, at most
\* 8 per flag byte, the bit deciding literal or back-reference; once
\* outIndex >= outLength or offset >= len(inData), no token is decoded and no
\* input consumed for the rest of the flag byte, and the decode returns.
SlotBit == (flags \div (2 ^ x)) % 2

Exhausted == outIndex >= outLength \/ offset >= Len(inData)

C9_SlotStep ==
    /\ (pc = "while" /\ pc' = "for") => x' = 7
    /\ (pc = "for" /\ x >= 0 /\ ~Exhausted /\ SlotBit = 0) =>
          /\ pc' = "for" /\ x' = x - 1
          /\ outIndex' = outIndex + 1 /\ offset' = offset + 1
          /\ ByteAt(outData', outIndex) = InAt(inData, offset)
    /\ (pc = "for" /\ x >= 0 /\ ~Exhausted /\ SlotBit = 1) =>
          /\ pc' \in {"copy", "raised"}
          /\ x' = x /\ outIndex' = outIndex /\ outData' = outData
    /\ (pc = "copy" /\ pc' = "for") => x' = x - 1
    /\ (pc = "for" /\ Exhausted) =>
          /\ pc' = "while"
          /\ offset' = offset /\ outIndex' = outIndex /\ outData' = outData
    /\ (pc = "while" /\ Exhausted) =>
          /\ pc' = "returned" /\ exc' = "none"
          /\ result' = outData

C9_Slots == [](pc \in {"for", "copy"} => x \in -1..7) /\ [][C9_SlotStep]_vars

\* The guard stops a flag byte whose remaining bits are not all zero.
C9_Witness ==
    /\ pc = "for" /\ x >= 0 /\ x < 7 /\ Exhausted
    /\ flags % (2 ^ (x + 1)) # 0
    /\ outIndex = outLength /\ offset < Len(inData)

----------------------------------------------------------------------------
\* C10: in the decode loop the cursors never decrease and stay in range:
\* startOffset <= offset <= len(inData) and 0 <= outIndex <= outLength.
C10_Range ==
    InLoop =>
        /\ StartOffset(inData) <= offset /\ offset <= Len(inData)
        /\ 0 <= outIndex /\ outIndex <= outLength

C10_Forward == offset' >= offset /\ outIndex' >= outIndex

C10_Cursors == [](C10_Range) /\ [][C10_Forward]_vars

\* A token read has run into the end of the input after some output.
C10_Witness ==
    /\ pc = "raised" /\ exc = "token"
    /\ offset = Len(inData) /\ outIndex > 0

====
